---- MODULE Spec2Model ----
(***************************************************************************)
(* Model of main.py: an asyncio program that walks a source folder and     *)
(* copies every regular file into <output>/<bucket>/<name>, where the      *)
(* bucket is the lowercased extension of the file name.                    *)
(*                                                                         *)
(* File names are sequences of one-character strings, paths are sequences  *)
(* of names, and the filesystem is a function from the existing paths to   *)
(* nodes.  The filesystem calls the program makes (mkdir, exists, rglob,   *)
(* is_file, shutil.copy) behave as the POSIX / CPython 3.10 library does.  *)
(***************************************************************************)
EXTENDS Naturals, Sequences, FiniteSets, TLC

VARIABLES
    pc,         \* position of main / read_folder
    fs,         \* the filesystem: existing path -> node
    fs0,        \* the filesystem when the run started (never changes)
    source,     \* args.source
    output,     \* args.output
    unreadable, \* source files whose open() raises PermissionError
    statDenied, \* entries whose stat() raises PermissionError (EACCES):
                \* none, or all of src/sub (listable but not searchable)
    visited,    \* entries rglob has yielded so far
    tasks,      \* read_folder's list `tasks`, one record per coroutine
    log,        \* records emitted through logging
    cname,      \* classification harness: the file name under test
    cbucket     \* classification harness: the bucket computed for cname

vars == <<pc, fs, fs0, source, output, unreadable, statDenied, visited,
          tasks, log, cname, cbucket>>

----------------------------------------------------------------------------
(* Bounds *)

MaxFiles == 3      \* regular files placed under the source root
MaxNameLen == 5    \* length of the names fed to the classifier

----------------------------------------------------------------------------
(* Names and classification (copy_file, lines 37-40) *)

Chars == {"a", "T", "t", "."}
UpperChars == {"A", "B", "C", "T", "X"}

NoExtension == <<"n","o","_","e","x","t","e","n","s","i","o","n">>

\* str.lower() on one character
LowerChar(c) ==
    CASE c = "A" -> "a"
      [] c = "B" -> "b"
      [] c = "C" -> "c"
      [] c = "T" -> "t"
      [] c = "X" -> "x"
      [] OTHER -> c

Lower(s) == [k \in 1..Len(s) |-> LowerChar(s[k])]

\* str.rfind('.') as a 1-based index, 0 when there is no dot
RFindDot(name) ==
    LET dots == {k \in 1..Len(name) : name[k] = "."}
    IN IF dots = {} THEN 0 ELSE CHOOSE k \in dots : \A j \in dots : j <= k

\* str.find('.') as a 1-based index, 0 when there is no dot
FindDot(name) ==
    LET dots == {k \in 1..Len(name) : name[k] = "."}
    IN IF dots = {} THEN 0 ELSE CHOOSE k \in dots : \A j \in dots : k <= j

\* a suffix taken from the first dot of the name instead of the last
SuffixFromFirstDot(name) ==
    LET i == FindDot(name)
    IN IF 1 < i /\ i < Len(name) THEN SubSeq(name, i, Len(name)) ELSE <<>>

\* a suffix that also accepts a leading dot (dotfiles get an extension)
SuffixWithLeadingDot(name) ==
    LET i == RFindDot(name)
    IN IF 0 < i /\ i < Len(name) THEN SubSeq(name, i, Len(name)) ELSE <<>>

\* PurePath.suffix: name[i:] when 0 < i < len(name) - 1 (0-based i), else ''
Suffix(name) ==
    LET i == RFindDot(name)
    IN IF 1 < i /\ i < Len(name) THEN SubSeq(name, i, Len(name)) ELSE <<>>

RECURSIVE LStripDots(_)
\* str.lstrip(".")
LStripDots(s) ==
    IF s # <<>> /\ Head(s) = "." THEN LStripDots(Tail(s)) ELSE s

\* extension = path.suffix.lower();
\* extension.lstrip(".") if extension else "no_extension"
\* (extension is bound once to its value, as the assignment does)
Bucket(name) ==
    CHOOSE folder \in
        {IF extension # <<>> THEN LStripDots(extension) ELSE NoExtension :
            extension \in {Lower(Suffix(name))}} : TRUE

----------------------------------------------------------------------------
(* Paths and filesystem nodes *)

Dir == [kind |-> "dir", data |-> <<>>]
File(d) == [kind |-> "file", data |-> d]

Parent(p) == SubSeq(p, 1, Len(p) - 1)
BaseName(p) == p[Len(p)]
Under(root, p) == Len(p) > Len(root) /\ SubSeq(p, 1, Len(root)) = root

Exists(f, p) == p \in DOMAIN f
IsDir(f, p) == p \in DOMAIN f /\ f[p].kind = "dir"
\* a test that holds for every existing entry, directories included
IsFileOrDir(f, p) == p \in DOMAIN f

IsFile(f, p) == p \in DOMAIN f /\ f[p].kind = "file"

\* the filesystem f with node n at path p
Put(f, p, n) == [q \in DOMAIN f \cup {p} |-> IF q = p THEN n ELSE f[q]]

RECURSIVE MkdirAnyExisting(_, _, _, _)
\* a mkdir whose exist_ok accepts whatever exists at the path, also a
\* regular file
MkdirAnyExisting(f, p, parents, existOk) ==
    IF Exists(f, p)
    THEN IF existOk
         THEN [ok |-> TRUE, fs |-> f, exc |-> "none"]
         ELSE [ok |-> FALSE, fs |-> f, exc |-> "FileExistsError"]
    ELSE IF Len(p) = 1 \/ IsDir(f, Parent(p))
         THEN [ok |-> TRUE, fs |-> Put(f, p, Dir), exc |-> "none"]
    ELSE IF Exists(f, Parent(p))
         THEN [ok |-> FALSE, fs |-> f, exc |-> "NotADirectoryError"]
    ELSE IF ~parents
         THEN [ok |-> FALSE, fs |-> f, exc |-> "FileNotFoundError"]
    ELSE LET r == MkdirAnyExisting(f, Parent(p), TRUE, TRUE)
         IN IF r.ok
            THEN [ok |-> TRUE, fs |-> Put(r.fs, p, Dir), exc |-> "none"]
            ELSE r

RECURSIVE Mkdir(_, _, _, _)
\* Path.mkdir(parents=parents, exist_ok=existOk) on filesystem f:
\* os.mkdir, retried after creating the parents on FileNotFoundError;
\* any other OSError is swallowed only if exist_ok and the path is_dir().
Mkdir(f, p, parents, existOk) ==
    IF Exists(f, p)
    THEN IF existOk /\ IsDir(f, p)
         THEN [ok |-> TRUE, fs |-> f, exc |-> "none"]
         ELSE [ok |-> FALSE, fs |-> f, exc |-> "FileExistsError"]
    ELSE IF Len(p) = 1 \/ IsDir(f, Parent(p))
         THEN [ok |-> TRUE, fs |-> Put(f, p, Dir), exc |-> "none"]
    ELSE IF Exists(f, Parent(p))
         THEN [ok |-> FALSE, fs |-> f, exc |-> "NotADirectoryError"]
    ELSE IF ~parents
         THEN [ok |-> FALSE, fs |-> f, exc |-> "FileNotFoundError"]
    ELSE LET r == Mkdir(f, Parent(p), TRUE, TRUE)
         IN IF r.ok
            THEN [ok |-> TRUE, fs |-> Put(r.fs, p, Dir), exc |-> "none"]
            ELSE r

\* an open for writing that creates the file but keeps what an existing
\* file holds (no O_TRUNC)
OpenWithoutTruncate(f, p) ==
    IF IsFile(f, p) THEN f ELSE Put(f, p, File(<<>>))

\* open(p, 'wb'): the file is created, or truncated to length 0
OpenForWrite(f, p) == Put(f, p, File(<<>>))

\* what a write of `data` at offset 0 leaves in a file holding `old`
\* (the writer's descriptor has its own offset and no O_APPEND)
Overlay(data, old) ==
    IF Len(data) >= Len(old) THEN data
    ELSE data \o SubSeq(old, Len(data) + 1, Len(old))

----------------------------------------------------------------------------
(* The worlds a run can start in *)

nSrc == <<"s","r","c">>
nOut == <<"o","u","t">>
nSub == <<"s","u","b">>
fA == <<"a",".","T">>
fB == <<"b",".","t">>
fC == <<"c">>
bT == <<"t">>

SrcRoot == <<nSrc>>
OutRoots == {<<nOut>>, <<nSrc, nOut>>}

\* the files a source tree is drawn from, relative to the source root;
\* a.T occurs twice (same bucket and base name, contents of unequal length)
PoolData(rel) ==
    CASE rel = <<fA>> -> <<1, 1>>
      [] rel = <<nSub, fA>> -> <<2>>
      [] rel = <<nSub, fB>> -> <<3>>
      [] rel = <<fC>> -> <<4>>

PoolRel == {<<fA>>, <<nSub, fA>>, <<nSub, fB>>, <<fC>>}

SrcPaths(kind, chosen, sub) ==
    IF kind = "none" THEN {}
    ELSE IF kind = "file" THEN {SrcRoot}
    ELSE {SrcRoot} \cup {SrcRoot \o r : r \in chosen}
         \cup (IF sub \/ \E r \in chosen : Len(r) = 2
               THEN {SrcRoot \o <<nSub>>} ELSE {})

SrcNode(kind, p) ==
    IF p = SrcRoot THEN (IF kind = "file" THEN File(<<5>>) ELSE Dir)
    ELSE IF p = SrcRoot \o <<nSub>> THEN Dir
    ELSE File(PoolData(SubSeq(p, 2, Len(p))))

\* what is already at the output root when the run starts:
\* 0 nothing, 1 a regular file at the root, 2 an empty directory,
\* 3 a regular file at <root>/t, 4 a directory <root>/t,
\* 5 a file <root>/t/a.T, 6 a directory <root>/t/a.T,
\* 7 a directory <root>/t/a.T/a.T
OutKinds == 0..7

OutPaths(o, k) ==
    (IF k >= 1 THEN {o} ELSE {})
    \cup (IF k >= 3 THEN {o \o <<bT>>} ELSE {})
    \cup (IF k >= 5 THEN {o \o <<bT, fA>>} ELSE {})
    \cup (IF k >= 7 THEN {o \o <<bT, fA, fA>>} ELSE {})

OutNode(o, k, p) ==
    IF p = o THEN (IF k = 1 THEN File(<<7>>) ELSE Dir)
    ELSE IF p = o \o <<bT>> THEN (IF k = 3 THEN File(<<7>>) ELSE Dir)
    ELSE IF p = o \o <<bT, fA>> THEN (IF k = 5 THEN File(<<9, 9, 9>>) ELSE Dir)
    ELSE Dir

World(kind, chosen, sub, o, k) ==
    [p \in SrcPaths(kind, chosen, sub) \cup OutPaths(o, k) |->
        IF p \in OutPaths(o, k) THEN OutNode(o, k, p) ELSE SrcNode(kind, p)]

\* the output root can pre-exist inside the source root only if that is
\* a directory; inside the source root it starts absent, empty or holding
\* the file t/a.T
WellFormed(kind, o, k) ==
    /\ (Under(SrcRoot, o) /\ kind # "dir") => k = 0
    /\ Under(SrcRoot, o) => k \in {0, 2, 5}

RegularFiles(f, root) == {p \in DOMAIN f : Under(root, p) /\ f[p].kind = "file"}

----------------------------------------------------------------------------
(* read_folder's coroutines *)

\* the state of a coroutine object that copy_file(item, output) returns:
\* already scheduled on the event loop
ScheduledAtCreation == "mkdir"

\* the state of a coroutine object that copy_file(item, output) returns:
\* nothing of its body runs until it is awaited or wrapped in a task
CoroutineCreated == "new"

NewTask(p) ==
    [path |-> p, pc |-> CoroutineCreated, dst |-> <<>>,
     result |-> "none", exc |-> "none"]

\* target_folder = output_folder / bucket
TargetFolder(o, p) == o \o <<Bucket(BaseName(p))>>

\* a target name made unique by prefixing the name of the file's folder
TargetPathWithFolderPrefix(o, p) ==
    TargetFolder(o, p) \o <<p[Len(p) - 1] \o BaseName(p)>>

\* target_path = target_folder / path.name
TargetPath(o, p) == TargetFolder(o, p) \o <<BaseName(p)>>

ExceptionClasses ==
    {"FileExistsError", "NotADirectoryError", "FileNotFoundError",
     "PermissionError", "IsADirectoryError", "SameFileError"}

\* a handler that lets the errors of the copy primitive through
HandlesMkdirOnly(e) == e \in {"FileExistsError", "NotADirectoryError"}

\* a handler that lets the errors of mkdir through
HandlesCopyOnly(e) ==
    e \in ExceptionClasses \ {"FileExistsError", "NotADirectoryError"}

\* `except Exception as e`: every error a filesystem call raises
Handles(e) == e \in ExceptionClasses

\* exist_ok=False
ExistNotOk == FALSE

\* exist_ok=True in target_folder.mkdir(parents=True, exist_ok=True)
ExistOk == TRUE

\* a wait that returns as soon as one awaitable is done
AnyFinished(ts) == \E i \in 1..Len(ts) : ts[i].pc = "done"

\* asyncio.gather(*tasks) returns when every awaitable is done
AllFinished(ts) == \A i \in 1..Len(ts) : ts[i].pc = "done"

LogRec(level, event, p, target) ==
    [level |-> level, event |-> event, path |-> p, target |-> target]

----------------------------------------------------------------------------
(* Initial states *)

Init ==
    /\ pc = "main"
    /\ source = SrcRoot
    /\ output \in OutRoots
    /\ \E kind \in {"none", "dir", "file"}, chosen \in SUBSET PoolRel,
          sub \in BOOLEAN, k \in OutKinds :
          /\ Cardinality(chosen) <= MaxFiles
          /\ kind # "dir" => (chosen = {} /\ ~sub)
          /\ WellFormed(kind, output, k)
          /\ fs = World(kind, chosen, sub, output, k)
    /\ fs0 = fs
    /\ unreadable \in SUBSET RegularFiles(fs, source)
    /\ statDenied \in {{}, {p \in DOMAIN fs : Under(SrcRoot \o <<nSub>>, p)}}
    /\ statDenied # {} => unreadable = {}
    /\ visited = {}
    /\ tasks = <<>>
    /\ log = {}
    /\ cname = <<>>
    /\ cbucket = <<>>

----------------------------------------------------------------------------
(* main and read_folder *)

\* main, line 83: await output_folder.mkdir(parents=True, exist_ok=True)
MainMkdirOutput ==
    /\ pc = "main"
    /\ LET r == Mkdir(fs, output, TRUE, TRUE)
       IN /\ fs' = r.fs
          /\ pc' = IF r.ok THEN "read_folder" ELSE "raised"
    /\ UNCHANGED <<fs0, source, output, unreadable, statDenied, visited,
                   tasks, log, cname, cbucket>>

\* read_folder, lines 17-19: the source check
CheckSource ==
    /\ pc = "read_folder"
    /\ IF Exists(fs, source)
       THEN /\ pc' = "walk"
            /\ log' = log
       ELSE /\ pc' = "done"
            /\ log' = log \cup {LogRec("ERROR", "source_missing", source, <<>>)}
    /\ UNCHANGED <<fs, fs0, source, output, unreadable, statDenied, visited,
                   tasks, cname, cbucket>>

Children(d) == {q \in DOMAIN fs : Len(q) = Len(d) + 1 /\ Parent(q) = d}

\* rglob has started to list directory d and has not finished
Listing(d) == Children(d) \cap visited # {} /\ ~(Children(d) \subseteq visited)

\* the entries source.rglob("*") can yield next.  It lists one directory
\* at a time, in the order scandir returns the entries, and a directory
\* only after the listing of the directory it is in; no entry twice.
Yieldable ==
    {p \in DOMAIN fs :
        /\ Under(source, p)
        /\ p \notin visited
        /\ IsDir(fs, Parent(p))
        /\ \/ Parent(p) = source
           \/ Parent(p) \in visited /\ Children(Parent(Parent(p))) \subseteq visited
        /\ \A q \in visited : Parent(q) # Parent(p) => ~Listing(Parent(q))}

\* read_folder, lines 22-24: one iteration of the async for
WalkStep ==
    /\ pc = "walk"
    /\ \E p \in Yieldable :
          /\ visited' = visited \cup {p}
          /\ IF p \in statDenied
             THEN \* item.is_file() raises; nothing in read_folder or main
                  \* catches it
                  /\ pc' = "raised"
                  /\ tasks' = tasks
             ELSE /\ pc' = pc
                  /\ tasks' = IF IsFile(fs, p)
                              THEN Append(tasks, NewTask(p))
                              ELSE tasks
    /\ UNCHANGED <<fs, fs0, source, output, unreadable, statDenied, log,
                   cname, cbucket>>

\* read_folder, lines 27-28: the walk is over and tasks is not empty;
\* gather wraps every coroutine in a task and schedules it
GatherStart ==
    /\ pc = "walk"
    /\ Yieldable = {}
    /\ tasks # <<>>
    /\ tasks' = [i \in 1..Len(tasks) |->
                    IF tasks[i].pc = "new"
                    THEN [tasks[i] EXCEPT !.pc = "mkdir"]
                    ELSE tasks[i]]
    /\ pc' = "gather"
    /\ UNCHANGED <<fs, fs0, source, output, unreadable, statDenied, visited,
                   log, cname, cbucket>>

\* read_folder, lines 29-30: the walk is over and tasks is empty
WarnNoFiles ==
    /\ pc = "walk"
    /\ Yieldable = {}
    /\ tasks = <<>>
    /\ log' = log \cup {LogRec("WARNING", "no_files", source, <<>>)}
    /\ pc' = "done"
    /\ UNCHANGED <<fs, fs0, source, output, unreadable, statDenied, visited,
                   tasks, cname, cbucket>>

\* read_folder, line 28: gather returns
GatherDone ==
    /\ pc = "gather"
    /\ AllFinished(tasks)
    /\ pc' = "done"
    /\ UNCHANGED <<fs, fs0, source, output, unreadable, statDenied, visited,
                   tasks, log, cname, cbucket>>

----------------------------------------------------------------------------
(* copy_file *)

\* the event loop is inside asyncio.run(main()) and main is suspended in
\* an await, so scheduled tasks get to run
LoopRunning == pc \in {"walk", "gather"}

\* a handler that swallows the error without reporting it
RaiseSilently(i, e) ==
    /\ tasks' = [tasks EXCEPT ![i].pc = "done", ![i].result = "error",
                              ![i].exc = e]
    /\ log' = log
    /\ pc' = pc

\* copy_file, lines 50-51 (and what happens without a matching handler:
\* gather re-raises the first exception to read_folder, main and
\* asyncio.run)
Raise(i, e) ==
    IF Handles(e)
    THEN /\ tasks' = [tasks EXCEPT ![i].pc = "done", ![i].result = "error",
                                   ![i].exc = e]
         /\ log' = log \cup {LogRec("ERROR", "copy_error", tasks[i].path, <<>>)}
         /\ pc' = pc
    ELSE /\ tasks' = [tasks EXCEPT ![i].pc = "raised", ![i].exc = e]
         /\ log' = log
         /\ pc' = "raised"

\* copy_file, line 44: await target_folder.mkdir(parents=True, exist_ok=True)
TaskMkdir(i) ==
    /\ LoopRunning
    /\ tasks[i].pc = "mkdir"
    /\ \E folder \in {TargetFolder(output, tasks[i].path)} :
       \E r \in {Mkdir(fs, folder, TRUE, ExistOk)} :
          IF r.ok
          THEN /\ fs' = r.fs
               /\ tasks' = [tasks EXCEPT ![i].pc = "copy"]
               /\ UNCHANGED <<pc, log>>
          ELSE /\ fs' = fs
               /\ Raise(i, r.exc)
    /\ UNCHANGED <<fs0, source, output, unreadable, statDenied, visited,
                   cname, cbucket>>

\* shutil.copy(src, dst): a directory dst stands for dst/basename(src)
CopyDestination(f, src, dst) ==
    IF IsDir(f, dst) THEN dst \o <<BaseName(src)>> ELSE dst

\* shutil.copyfile up to the point both files are open: the exception it
\* raises on filesystem f, or "none"
CopyOpenError(f, src, dst) ==
    IF Exists(f, dst) /\ src = dst THEN "SameFileError"
    ELSE IF ~Exists(f, src) THEN "FileNotFoundError"
    ELSE IF src \in unreadable THEN "PermissionError"
    ELSE IF IsDir(f, src) THEN "IsADirectoryError"
    ELSE IF IsDir(f, dst) THEN "IsADirectoryError"
    ELSE IF ~Exists(f, Parent(dst)) THEN "FileNotFoundError"
    ELSE IF ~IsDir(f, Parent(dst)) THEN "NotADirectoryError"
    ELSE "none"

\* copy_file, lines 45-48, first half of aioshutil.copy (in a worker
\* thread): resolve the destination, open the source, open the destination
\* with mode 'wb' (created, or truncated to length 0)
TaskCopyOpen(i) ==
    /\ LoopRunning
    /\ tasks[i].pc = "copy"
    /\ \E target \in {TargetPath(output, tasks[i].path)} :
       \E dst \in {CopyDestination(fs, tasks[i].path, target)} :
       \E e \in {CopyOpenError(fs, tasks[i].path, dst)} :
          IF e = "none"
          THEN /\ fs' = OpenForWrite(fs, dst)
               /\ tasks' = [tasks EXCEPT ![i].pc = "write", ![i].dst = dst]
               /\ UNCHANGED <<pc, log>>
          ELSE /\ fs' = fs
               /\ Raise(i, e)
    /\ UNCHANGED <<fs0, source, output, unreadable, statDenied, visited,
                   cname, cbucket>>

\* copy_file, lines 48-49, second half of aioshutil.copy: the content of
\* the source is written through the destination descriptor, then the
\* success is logged
TaskCopyWrite(i) ==
    /\ LoopRunning
    /\ tasks[i].pc = "write"
    /\ \E target \in {TargetPath(output, tasks[i].path)} :
       \E data \in {Overlay(fs[tasks[i].path].data, fs[tasks[i].dst].data)} :
          /\ fs' = Put(fs, tasks[i].dst, File(data))
          /\ log' = log \cup {LogRec("INFO", "copied", tasks[i].path, target)}
    /\ tasks' = [tasks EXCEPT ![i].pc = "done", ![i].result = "copied"]
    /\ UNCHANGED <<pc, fs0, source, output, unreadable, statDenied, visited,
                   cname, cbucket>>

----------------------------------------------------------------------------
(* The program *)

Next ==
    \/ MainMkdirOutput
    \/ CheckSource
    \/ WalkStep
    \/ GatherStart
    \/ WarnNoFiles
    \/ \E i \in 1..Len(tasks) : TaskMkdir(i)
    \/ \E i \in 1..Len(tasks) : TaskCopyOpen(i)
    \/ \E i \in 1..Len(tasks) : TaskCopyWrite(i)
    \/ GatherDone

Spec == Init /\ [][Next]_vars

----------------------------------------------------------------------------
(* The classifier on its own: every name up to MaxNameLen over Chars *)

Names == UNION {[1..n -> Chars] : n \in 1..MaxNameLen}

InitClassify ==
    /\ pc = "classify"
    /\ fs = World("none", {}, FALSE, <<nOut>>, 0)
    /\ fs0 = fs
    /\ source = SrcRoot
    /\ output = <<nOut>>
    /\ unreadable = {}
    /\ statDenied = {}
    /\ visited = {}
    /\ tasks = <<>>
    /\ log = {}
    /\ cname \in Names
    /\ cbucket = <<>>

\* copy_file, lines 37-40, applied to cname
Classify ==
    /\ pc = "classify"
    /\ cbucket' = Bucket(cname)
    /\ pc' = "classified"
    /\ UNCHANGED <<fs, fs0, source, output, unreadable, statDenied, visited,
                   tasks, log, cname>>

NextClassify == Classify

SpecClassify == InitClassify /\ [][NextClassify]_vars

----------------------------------------------------------------------------
(* Vocabulary of the properties *)

Ended == pc \in {"done", "raised"}

\* the regular files under the source root when the run started
SourceFiles == RegularFiles(fs0, source)

Key(p) == <<Bucket(BaseName(p)), BaseName(p)>>

NoCollision == \A f, g \in SourceFiles : f # g => Key(f) # Key(g)

TaskIds == 1..Len(tasks)

\* whether the directory-create and copy steps of the task for file f
\* succeed, judged from the world the run started in and from f alone
MkdirSucceeds(f) == ~IsFile(fs0, TargetFolder(output, f))

CopySucceeds(f) ==
    LET target == TargetPath(output, f)
    IN /\ f \notin unreadable
       /\ f # target
       /\ ~(IsDir(fs0, target) /\ IsDir(fs0, target \o <<BaseName(f)>>))

OwnStepsSucceed(f) == MkdirSucceeds(f) /\ CopySucceeds(f)

----------------------------------------------------------------------------
(* C1 *)

\* C1: after a run in which every copy succeeded and no two source files
\* share (bucket, base name), every regular file f of the source tree has
\* a regular file at <output>/<bucket(f)>/<name(f)> with the content of f.
C1_RoundTrip ==
    (/\ pc = "done"
     /\ NoCollision
     /\ \A i \in TaskIds : tasks[i].result = "copied")
    => \A f \in SourceFiles :
          /\ IsFile(fs, TargetPath(output, f))
          /\ fs[TargetPath(output, f)].data = fs0[f].data

----------------------------------------------------------------------------
(* C2 *)

\* C2: a failure in one file's pipeline is caught in that file's task: it
\* never reaches the caller or a sibling.  When the run is over every task
\* has finished, a task has failed only if one of its own steps fails, and
\* every file whose own steps succeed has been copied.
C2_FailSoft ==
    /\ \A i \in TaskIds : tasks[i].pc # "raised"
    /\ (\E i \in TaskIds : tasks[i].result = "error") => pc # "raised"
    /\ \A i \in TaskIds :
          tasks[i].result = "error" => ~OwnStepsSucceed(tasks[i].path)
    /\ pc = "done" =>
          \A i \in TaskIds :
             /\ tasks[i].pc = "done"
             /\ OwnStepsSucceed(tasks[i].path) =>
                   /\ tasks[i].result = "copied"
                   /\ IsFile(fs, tasks[i].dst)

\* the run is over, one task failed and a sibling was copied
C2_Witness ==
    /\ pc = "done"
    /\ \E i, j \in TaskIds :
          /\ tasks[i].result = "error"
          /\ tasks[j].result = "copied"
          /\ IsFile(fs, tasks[j].dst)

----------------------------------------------------------------------------
(* C3 *)

\* C3: when <output>/<bucket> was absent or a directory at the start, every
\* task of that bucket gets past its mkdir in every interleaving: the
\* directory exists once a task is past mkdir, and no task fails with
\* FileExistsError (or any other mkdir error) because a sibling created it.
C3_IdempotentMkdir ==
    \A i \in TaskIds :
       LET folder == TargetFolder(output, tasks[i].path)
       IN ~IsFile(fs0, folder) =>
             /\ tasks[i].exc \notin {"FileExistsError", "NotADirectoryError"}
             /\ tasks[i].pc \in {"copy", "write", "done"} => IsDir(fs, folder)

\* two tasks of the same bucket are both past mkdir, and the directory
\* did not exist at the start
C3_Witness ==
    \E i, j \in TaskIds :
       /\ i # j
       /\ TargetFolder(output, tasks[i].path) = TargetFolder(output, tasks[j].path)
       /\ ~Exists(fs0, TargetFolder(output, tasks[i].path))
       /\ tasks[i].pc \in {"copy", "write", "done"}
       /\ tasks[j].pc \in {"copy", "write", "done"}
       /\ tasks[i].exc = "none" /\ tasks[j].exc = "none"

----------------------------------------------------------------------------
(* C4 *)

\* C4: the run is over only when no launched task is pending or in flight.
C4_WaitsForAll ==
    Ended => \A i \in TaskIds : tasks[i].pc \notin {"mkdir", "copy", "write"}

\* read_folder has returned from gather although a task failed
C4_Witness ==
    /\ pc = "done"
    /\ Len(tasks) >= 2
    /\ \E i \in TaskIds : tasks[i].result = "error"
    /\ \A i \in TaskIds : tasks[i].pc = "done"

----------------------------------------------------------------------------
(* C5 *)

\* C5 as stated: a copy task is launched as soon as the walk yields its
\* path, so every coroutine in `tasks` has been started.
C5_LaunchedWhenYielded ==
    \A i \in TaskIds : tasks[i].pc # "new"

\* C5 as amended: while the walk has not finished no copy task has been
\* launched; every coroutine collected so far is still unstarted and the
\* filesystem under the output root is as main left it.
C5_NoCopyDuringWalk ==
    pc \in {"main", "read_folder", "walk"} =>
       /\ \A i \in TaskIds : tasks[i].pc = "new" /\ tasks[i].result = "none"
       /\ \A p \in DOMAIN fs : Under(output, p) => p \in DOMAIN fs0

\* the walk has yielded a file and has more entries to yield
C5_Witness ==
    /\ pc = "walk"
    /\ Len(tasks) >= 1
    /\ Yieldable # {}

----------------------------------------------------------------------------
(* C6 *)

\* C6: when two source files map to the same target path and both copies
\* succeed, the file at that path holds, after the run, the whole content
\* of one of the two originals.
C6_CollisionKeepsOneOriginal ==
    pc = "done" =>
       \A i, j \in TaskIds :
          (/\ i # j
           /\ TargetPath(output, tasks[i].path) = TargetPath(output, tasks[j].path)
           /\ tasks[i].result = "copied"
           /\ tasks[j].result = "copied"
           /\ tasks[i].dst = tasks[j].dst)
          => /\ IsFile(fs, tasks[i].dst)
             /\ fs[tasks[i].dst].data \in {fs0[tasks[i].path].data,
                                           fs0[tasks[j].path].data}

----------------------------------------------------------------------------
(* C7 *)

\* C7: if the source root does not exist when the run starts (and nothing
\* prevents the creation of the output root), the run ends without raising,
\* has logged the source-missing error, has launched no copy task, and the
\* output root is a directory holding no file written by this run.
C7_MissingSource ==
    (/\ Ended
     /\ ~Exists(fs0, source)
     /\ ~IsFile(fs0, output))
    => /\ pc = "done"
       /\ \E r \in log : r.level = "ERROR" /\ r.event = "source_missing"
       /\ tasks = <<>>
       /\ IsDir(fs, output)
       /\ \A p \in DOMAIN fs :
             (Under(output, p) /\ fs[p].kind = "file")
             => (p \in DOMAIN fs0 /\ fs0[p] = fs[p])

----------------------------------------------------------------------------
(* C8 *)

\* the source check has been passed: main created the output root and
\* read_folder found the source root
SourceCheckPassed == IsDir(fs, output) /\ Exists(fs, source)

\* C8: once the source check has passed, no later error keeps a
\* discoverable file from being attempted: when the run is over, every
\* regular file of the source tree (other than an entry whose own stat
\* fails) has a task that was started.
C8_OnlyMissingSourceAborts ==
    (Ended /\ SourceCheckPassed)
    => \A f \in SourceFiles \ statDenied :
          \E i \in TaskIds : tasks[i].path = f /\ tasks[i].pc # "new"

----------------------------------------------------------------------------
(* C9, C10: the classifier, checked under SpecClassify *)

RECURSIVE AfterFinalDot(_)
\* the part of a name after its final '.', the whole name if it has none
AfterFinalDot(name) ==
    IF name = <<>> \/ name[Len(name)] = "." THEN <<>>
    ELSE Append(AfterFinalDot(SubSeq(name, 1, Len(name) - 1)), name[Len(name)])

\* a dotfile: the only '.' of the name is its first character
IsDotfile(name) ==
    /\ name[1] = "."
    /\ \A k \in 2..Len(name) : name[k] # "."

\* the name has a non-empty extension
HasExtension(name) ==
    /\ \E k \in 1..Len(name) : name[k] = "."
    /\ ~IsDotfile(name)
    /\ AfterFinalDot(name) # <<>>

\* C9: a name with a non-empty extension E (the part after the final '.')
\* is classified as E in lower case: same length as E, equal to E up to
\* letter case, without an upper-case letter and without the dot.
C9_ExtensionLowercased ==
    (pc = "classified" /\ HasExtension(cname)) =>
       LET E == AfterFinalDot(cname)
       IN /\ Len(cbucket) = Len(E)
          /\ \A k \in 1..Len(E) :
                /\ cbucket[k] = LowerChar(E[k])
                /\ cbucket[k] \notin UpperChars
                /\ cbucket[k] # "."

\* a classified name with several dots and an upper-case extension
C9_Witness ==
    /\ pc = "classified"
    /\ HasExtension(cname)
    /\ Cardinality({k \in 1..Len(cname) : cname[k] = "."}) >= 2
    /\ \E k \in 1..Len(AfterFinalDot(cname)) : AfterFinalDot(cname)[k] \in UpperChars
    /\ cbucket = Lower(AfterFinalDot(cname))

\* C10: a name without an extension, dotfiles included, is classified as
\* "no_extension", and no name is classified as the empty string.
C10_NoExtensionSentinel ==
    pc = "classified" =>
       /\ cbucket # <<>>
       /\ ~HasExtension(cname) => cbucket = NoExtension

\* a classified dotfile
C10_Witness ==
    /\ pc = "classified"
    /\ Len(cname) >= 2
    /\ IsDotfile(cname)
    /\ cbucket = NoExtension

----------------------------------------------------------------------------
(* C11 *)

\* nothing is at or under the output root when the run starts, or the
\* output root is an empty directory
OutputStartsEmpty ==
    /\ ~IsFile(fs0, output)
    /\ \A p \in DOMAIN fs0 : ~Under(output, p)

AllCopied == pc = "done" /\ \A i \in TaskIds : tasks[i].result = "copied"

\* C11: after a run that started with an empty or absent output root and
\* in which every copy succeeded, the number of regular files under the
\* output root is the number of distinct (bucket, base name) pairs among
\* the regular files of the source tree.
C11_FileCount ==
    (AllCopied /\ OutputStartsEmpty) =>
       Cardinality(RegularFiles(fs, output))
          = Cardinality({Key(f) : f \in SourceFiles})

\* such a run with three source files of which two collide
C11_Witness ==
    /\ AllCopied
    /\ OutputStartsEmpty
    /\ Cardinality(SourceFiles) = 3
    /\ ~NoCollision
    /\ Cardinality(RegularFiles(fs, output)) = 2

----------------------------------------------------------------------------
(* C12 *)

\* C12: when read_folder finds the source root and no regular file is
\* under it, the run returns without launching a copy task, the warning is
\* logged and no error, and nothing is created under the output root,
\* which exists (and is empty if it was when main had created it).
C12_EmptySource ==
    (Ended /\ SourceCheckPassed /\ RegularFiles(fs0, source) = {})
    => /\ pc = "done"
       /\ tasks = <<>>
       /\ \E r \in log : r.level = "WARNING" /\ r.event = "no_files"
       /\ \A r \in log : r.level # "ERROR"
       /\ IsDir(fs, output)
       /\ \A p \in DOMAIN fs : Under(output, p) => p \in DOMAIN fs0

\* the run is over for a source root that holds a directory and no file,
\* and the output root is empty
C12_Witness ==
    /\ pc = "done"
    /\ IsDir(fs0, SrcRoot \o <<nSub>>)
    /\ RegularFiles(fs0, source) = {}
    /\ \A p \in DOMAIN fs : ~Under(output, p)
    /\ \E r \in log : r.event = "no_files"

----------------------------------------------------------------------------
(* C13 *)

\* C13: whenever a task is about to call the copy primitive, or is inside
\* it, the directory <output>/<bucket> of its target path exists.
C13_DirectoryBeforeCopy ==
    \A i \in TaskIds :
       tasks[i].pc \in {"copy", "write"} =>
          IsDir(fs, TargetFolder(output, tasks[i].path))

\* a task is inside the copy primitive, writing into a bucket directory
\* that did not exist when the run started
C13_Witness ==
    \E i \in TaskIds :
       /\ tasks[i].pc = "write"
       /\ ~Exists(fs0, TargetFolder(output, tasks[i].path))
       /\ Parent(tasks[i].dst) = TargetFolder(output, tasks[i].path)

----------------------------------------------------------------------------
(* C14 *)

\* the bucket path of file f is occupied by a non-directory
BucketBlocked(f) == IsFile(fs0, TargetFolder(output, f))

\* C14: when <output>/<bucket> cannot be created, no task of that bucket
\* ever reaches the copy primitive or writes anything; each of them ends
\* with the error report for its file.  When the run is over, the files of
\* the other buckets whose own copy succeeds have been copied.
C14_MkdirFailureScope ==
    /\ \A i \in TaskIds :
          BucketBlocked(tasks[i].path) =>
             /\ tasks[i].pc \in {"new", "mkdir", "done"}
             /\ tasks[i].dst = <<>>
             /\ fs[TargetFolder(output, tasks[i].path)]
                   = fs0[TargetFolder(output, tasks[i].path)]
             /\ tasks[i].pc = "done" =>
                   /\ tasks[i].result = "error"
                   /\ LogRec("ERROR", "copy_error", tasks[i].path, <<>>) \in log
    /\ pc = "done" =>
          \A j \in TaskIds :
             (~BucketBlocked(tasks[j].path) /\ CopySucceeds(tasks[j].path))
             => tasks[j].result = "copied" /\ IsFile(fs, tasks[j].dst)

\* the run is over: a file of the blocked bucket was reported as failed
\* and a file of another bucket was copied
C14_Witness ==
    /\ pc = "done"
    /\ \E i, j \in TaskIds :
          /\ BucketBlocked(tasks[i].path)
          /\ tasks[i].exc = "FileExistsError"
          /\ ~BucketBlocked(tasks[j].path)
          /\ tasks[j].result = "copied"

----------------------------------------------------------------------------
(* C15 *)

\* the regular files the walk has yielded and is_file has recognised
YieldedFiles ==
    {p \in visited \ statDenied : p \in DOMAIN fs /\ fs[p].kind = "file"}

\* the tasks that were launched
Launched == {i \in TaskIds : tasks[i].pc # "new"}

\* what holds of the list `tasks` in every state: no path twice, only
\* yielded regular files
TaskListWellFormed ==
    /\ \A i, j \in TaskIds : i # j => tasks[i].path # tasks[j].path
    /\ \A i \in TaskIds : tasks[i].path \in YieldedFiles

\* C15: when the run is over, every regular file the walk yielded has been
\* consumed by exactly one copy task, no other entry has a task, and the
\* number of launched tasks is the number of regular files discovered.
C15_OneTaskPerFile ==
    /\ TaskListWellFormed
    /\ Ended =>
          /\ \A p \in YieldedFiles :
                Cardinality({i \in Launched : tasks[i].path = p}) = 1
          /\ Cardinality(Launched) = Cardinality(YieldedFiles)

----------------------------------------------------------------------------
(* C16 *)

Reports(i, event) == {r \in log : r.path = tasks[i].path /\ r.event = event}

\* C16: a launched task that has not finished has reported nothing; a
\* finished task has reported exactly one outcome, either the success
\* (naming the target path copy_file resolved, and only if neither of its
\* steps raised) or the error, never both.
C16_OneOutcomePerTask ==
    \A i \in TaskIds :
       LET ok == Reports(i, "copied")
           ko == Reports(i, "copy_error")
       IN /\ tasks[i].pc # "done" => (ok = {} /\ ko = {})
          /\ tasks[i].pc = "done" => Cardinality(ok) + Cardinality(ko) = 1
          /\ ok # {} =>
                /\ tasks[i].result = "copied"
                /\ tasks[i].exc = "none"
                /\ \A r \in ok : /\ r.level = "INFO"
                                 /\ r.target = TargetPath(output, tasks[i].path)
          /\ ko # {} =>
                /\ tasks[i].result = "error"
                /\ tasks[i].exc # "none"
                /\ \A r \in ko : r.level = "ERROR"

\* one task has reported a success, one an error, and one is still inside
\* the copy primitive
C16_Witness ==
    \E i, j, k \in TaskIds :
       /\ Reports(i, "copied") # {}
       /\ Reports(j, "copy_error") # {}
       /\ tasks[k].pc = "write"

----------------------------------------------------------------------------
(* C17 *)

\* where the content of source file f lands, judged from the initial world
Landing(f) == CopyDestination(fs0, f, TargetPath(output, f))

\* the filesystem a run without collision and without failure must end
\* with, computed from the initial world alone: the output root, one
\* directory per bucket in use, one file per source file
ExpectedFS ==
    LET base == Mkdir(fs0, output, TRUE, TRUE).fs
        folders == {TargetFolder(output, f) : f \in SourceFiles}
        landings == {Landing(f) : f \in SourceFiles}
    IN [p \in DOMAIN base \cup folders \cup landings |->
           IF p \in landings
           THEN [kind |-> "file",
                 data |-> fs0[CHOOSE f \in SourceFiles : Landing(f) = p].data]
           ELSE IF p \in DOMAIN base THEN base[p]
           ELSE [kind |-> "dir", data |-> <<>>]]

\* C17: when no two source files share (bucket, base name) and no step
\* fails, the filesystem at the end of the run is a function of the
\* initial one: the same for every discovery order of the walk and every
\* interleaving of the copy tasks.
C17_OrderIndependent ==
    (AllCopied /\ NoCollision) => fs = ExpectedFS

\* a run of three files without collision or failure is over; the walk
\* had yielded src/c before src/a.T
C17_Witness ==
    /\ AllCopied
    /\ NoCollision
    /\ Len(tasks) = 3
    /\ tasks[1].path = SrcRoot \o <<fC>>
    /\ tasks[2].path = SrcRoot \o <<fA>>
    /\ fs = ExpectedFS

----------------------------------------------------------------------------
(* C18 *)

\* the event loop keeps running whatever is ready: the main coroutine, the
\* tasks, and the worker threads of the filesystem calls
SpecFair == Spec /\ WF_vars(Next)

\* C18: under fair scheduling, once the walk of the source tree has
\* started the run completes: the walk ends, every launched task reaches
\* a finished state and read_folder returns, whatever tasks fail.
C18_Termination ==
    (pc = "walk") ~> (pc = "done" /\ \A i \in TaskIds : tasks[i].pc = "done")

----------------------------------------------------------------------------
(* C19 *)

\* the regular files of filesystem f, with what they hold
FilesOf(f) == {<<p, f[p].data>> : p \in {q \in DOMAIN f : f[q].kind = "file"}}

\* C19: no file written by the run is discovered by its walk and copied
\* again, also with the output root inside the source root: every task
\* is for a regular file that was under the source root when the run
\* started, no file has two tasks, and as long as the walk lasts no task
\* has started and no file has been written.
C19_NoSelfFeeding ==
    /\ \A i \in TaskIds :
          IsFile(fs0, tasks[i].path) /\ Under(source, tasks[i].path)
    /\ \A i, j \in TaskIds : i # j => tasks[i].path # tasks[j].path
    /\ pc = "walk" =>
          /\ \A i \in TaskIds : tasks[i].pc = "new"
          /\ FilesOf(fs) = FilesOf(fs0)

\* the output root is inside the source root, the run is over, and it
\* has written a new file under the source root; there are as many tasks
\* as the source had files
C19_Witness ==
    /\ Under(source, output)
    /\ pc = "done"
    /\ \E i \in TaskIds :
          /\ tasks[i].result = "copied"
          /\ Under(source, tasks[i].dst)
          /\ ~Exists(fs0, tasks[i].dst)
          /\ IsFile(fs, tasks[i].dst)
    /\ Len(tasks) = Cardinality(SourceFiles)

----------------------------------------------------------------------------
(* C20 *)

\* the paths the run may create or write: the output root, the bucket
\* directory and the target file of a discovered file
MayWrite(p) ==
    \/ p = output /\ fs[p].kind = "dir"
    \/ \E i \in TaskIds :
          \/ p = TargetFolder(output, tasks[i].path) /\ fs[p].kind = "dir"
          \/ p = TargetPath(output, tasks[i].path) /\ fs[p].kind = "file"

\* C20: with the output root outside the source tree, the source root and
\* everything under it stay as they were, nothing is removed, and every
\* path that is new or holds something else than at the start is the
\* output root, a directory outputRoot/bucket or a file
\* outputRoot/bucket/baseName of a discovered file.
C20_Frame ==
    ~Under(source, output) =>
        /\ \A p \in DOMAIN fs0 :
              /\ p \in DOMAIN fs
              /\ (p = source \/ Under(source, p)) => fs[p] = fs0[p]
        /\ \A p \in DOMAIN fs :
              (p \notin DOMAIN fs0 \/ fs[p] # fs0[p]) => MayWrite(p)

====
